---- MODULE Spec2Model ----
(***************************************************************************)
(* Play-by-play flow simulation of FactoryEditor.tsx.                      *)
(*                                                                         *)
(* The component keeps the graph in React state (nodes, edges), receives   *)
(* isSimulating / simulationMode / simulationSpeed as props, and drives    *)
(* the run from requestAnimationFrame callbacks.  Every call of            *)
(* startPlayByPlaySimulation creates a closure (activePaths, the captured  *)
(* simulationSpeed, the captured graph); the animate callback of that      *)
(* closure advances its tokens.                                            *)
(*                                                                         *)
(* Numbers are JavaScript numbers restricted to the rationals plus         *)
(* Infinity and NaN: [n, d] with d > 0 is n/d, d = 0 is +-Infinity (n # 0) *)
(* or NaN (n = 0).  `undefined` in a numeric field is Undefined.           *)
(* Boolean presentation fields model `undefined` by FALSE (the code and    *)
(* the UI only test them for truthiness).                                  *)
(***************************************************************************)
EXTENDS Integers, Sequences, FiniteSets, TLC

(* ------------------------------ bounds --------------------------------- *)
\* largest clock value, in seconds, up to which frames are delivered
MaxSecs == 3
\* largest prop value of simulationSpeed
MaxSpeed == 1
\* largest cycle time (seconds) of the generated graphs
MaxCycle == 2
\* largest transit time (seconds) of the generated graphs
MaxTransit == 2
\* toasts of one kind that are counted
MaxToasts == 1

\* milliseconds between two animation frames that the driver can deliver
Deltas == {0, 1000, 2000}
PosDeltas == Deltas \ {0}
\* the speed multipliers the parent passes: paused and the top speed
Speeds == {0, MaxSpeed}

(* ------------------------- JavaScript numbers -------------------------- *)
Abs(x) == IF x < 0 THEN -x ELSE x

RECURSIVE GCD(_, _)
GCD(a, b) == IF b = 0 THEN a ELSE GCD(b, a % b)

\* the number n/d, in lowest terms with a non-negative denominator
Num(n, d) ==
  IF d = 0 THEN [n |-> IF n > 0 THEN 1 ELSE IF n < 0 THEN -1 ELSE 0, d |-> 0]
  ELSE LET g == GCD(Abs(n), Abs(d))
           s == IF d < 0 THEN -1 ELSE 1
       IN [n |-> (s * n) \div g, d |-> (s * d) \div g]

Int2Num(k) == [n |-> k, d |-> 1]
Zero == Int2Num(0)
One == Int2Num(1)
Infinity == [n |-> 1, d |-> 0]
NaN == [n |-> 0, d |-> 0]
Undefined == [n |-> 0, d |-> -1]

IsNaN(x) == x.d = 0 /\ x.n = 0
IsFinite(x) == x.d > 0

\* x + y
NumAdd(x, y) ==
  IF x.d = 0 /\ y.d = 0
  THEN (IF x.n = y.n THEN x ELSE NaN)
  ELSE Num(x.n * y.d + y.n * x.d, x.d * y.d)

\* x * k for an integer k
NumTimes(x, k) == Num(x.n * k, x.d)

\* x / y  (y = 0 gives +-Infinity or NaN)
NumDiv(x, y) ==
  IF x.d = 0 /\ y.d = 0 THEN NaN
  ELSE Num(x.n * y.d, x.d * y.n)

\* x < y, false when either is NaN
NumLess(x, y) ==
  /\ ~IsNaN(x) /\ ~IsNaN(y)
  /\ IF x.d = 0 /\ y.d = 0 THEN x.n < y.n
     ELSE IF x.d = 0 THEN x.n < 0
     ELSE IF y.d = 0 THEN y.n > 0
     ELSE x.n * y.d < y.n * x.d

\* x >= y, false when either is NaN
NumGeq(x, y) == ~IsNaN(x) /\ ~IsNaN(y) /\ ~NumLess(x, y)

\* Math.min(x, y)
MathMin(x, y) ==
  IF IsNaN(x) \/ IsNaN(y) THEN NaN ELSE IF NumLess(y, x) THEN y ELSE x

\* Math.round(x): the nearest integer, halves rounded up
MathRound(x) ==
  IF x.d <= 0 THEN x
  ELSE Int2Num((2 * x.n + x.d) \div (2 * x.d))

\* v || 0 for a number: NaN and 0 are falsy
OrZero(x) == IF IsNaN(x) \/ x = Undefined \/ x.n = 0 THEN Zero ELSE x

(* ------------------------------- graph --------------------------------- *)
\* A node of the React state `nodes`: id, type, parentId ("" when absent),
\* data.cycleTime and data.maxCapacity (0 when absent: the code reads both
\* through `|| 0` / `|| 1`), and the presentation fields the run writes.
MkNode(id, type, parentId, cycleTime, maxCapacity) ==
  [id |-> id, type |-> type, parentId |-> parentId,
   cycleTime |-> cycleTime, maxCapacity |-> maxCapacity,
   active |-> FALSE, progress |-> Undefined,
   utilization |-> Undefined, bottleneck |-> FALSE]

\* An edge of the React state `edges`, with data.transitTime and the
\* presentation fields.
MkEdge(id, source, target, transitTime) ==
  [id |-> id, source |-> source, target |-> target,
   transitTime |-> transitTime,
   transitInProgress |-> FALSE, transitProgress |-> Zero]

Equip(id, c) == MkNode(id, "equipment", "", c, 1)

CycleTimes == 0..MaxCycle
TransitTimes == 0..MaxTransit

\* chain a -> b -> c, and an unconnected node d
ChainGraphs ==
  { [nodes |-> <<Equip("a", c), Equip("b", MaxCycle - c), Equip("c", 1),
                 Equip("d", MaxCycle)>>,
     edges |-> <<MkEdge("e1", "a", "b", t), MkEdge("e2", "b", "c", MaxTransit - t)>>]
    : c \in CycleTimes, t \in TransitTimes }

\* fan-out a -> b, a -> c (node list in another order than the edges)
FanOutGraphs ==
  { [nodes |-> <<Equip("c", 1), Equip("a", c), Equip("b", MaxCycle - c)>>,
     edges |-> <<MkEdge("e1", "a", "b", t), MkEdge("e2", "a", "c", MaxTransit - t)>>]
    : c \in CycleTimes, t \in TransitTimes }

\* fan-in a -> c, b -> c: two start nodes
FanInGraphs ==
  { [nodes |-> <<Equip("a", c), Equip("b", 1), MkNode("c", "equipment", "", 1, 2)>>,
     edges |-> <<MkEdge("e1", "a", "c", t), MkEdge("e2", "b", "c", MaxTransit)>>]
    : c \in CycleTimes, t \in TransitTimes }

\* graphs without an entry point: a pure cycle, no edges, a self loop
NoEntryGraphs ==
  { [nodes |-> <<Equip("a", 1), Equip("b", MaxCycle)>>,
     edges |-> <<MkEdge("e1", "a", "b", t), MkEdge("e2", "b", "a", t)>>]
    : t \in TransitTimes }
  \cup
  { [nodes |-> <<Equip("a", 1), Equip("b", 1)>>, edges |-> <<>>],
    [nodes |-> <<Equip("a", 1)>>, edges |-> <<MkEdge("e1", "a", "a", 1)>>] }

\* a cycle behind a start node: s -> a -> b -> a
LoopGraphs ==
  { [nodes |-> <<Equip("s", 1), Equip("a", MaxCycle), Equip("b", 1)>>,
     edges |-> <<MkEdge("e1", "s", "a", 0), MkEdge("e2", "a", "b", 1),
                 MkEdge("e3", "b", "a", 0)>>] }

\* a group g with children that starts the flow: g -> b.  In the first
\* family the children's effective cycle times are 4/2, 5 and 8.
GroupStartGraphs ==
  { [nodes |-> <<MkNode("g", "group", "", gc, 0),
                 MkNode("x", "equipment", "g", 4, 2),
                 MkNode("y", "equipment", "g", 5, 1),
                 MkNode("z", "equipment", "g", 8, 1),
                 Equip("b", 1)>>,
     edges |-> <<MkEdge("e1", "g", "b", MaxTransit)>>]
    : gc \in CycleTimes }
  \cup
  { [nodes |-> <<MkNode("x", "equipment", "g", c, 1),
                 MkNode("g", "group", "", 0, 0),
                 MkNode("y", "equipment", "g", MaxCycle - c, 2),
                 Equip("b", 1)>>,
     edges |-> <<MkEdge("e1", "g", "b", 1)>>]
    : c \in CycleTimes }

\* a group g with children x, y, z that is entered by transit: a -> g -> b
GroupTransitGraphs ==
  { [nodes |-> <<Equip("a", 1),
                 MkNode("g", "group", "", gc, 0),
                 MkNode("x", "equipment", "g", 4, 2),
                 MkNode("y", "equipment", "g", 5, 1),
                 MkNode("z", "equipment", "g", 8, 1),
                 Equip("b", 1)>>,
     edges |-> <<MkEdge("e1", "a", "g", t), MkEdge("e2", "g", "b", MaxTransit - t)>>]
    : gc \in CycleTimes, t \in TransitTimes }

\* an edge to an id that no node has: a -> q next to a -> b
OrphanGraphs ==
  { [nodes |-> <<Equip("a", 1), Equip("b", MaxCycle)>>,
     edges |-> <<MkEdge("e1", "a", "q", t), MkEdge("e2", "a", "b", MaxTransit - t)>>]
    : t \in TransitTimes }

\* a group child with edges of its own: s -> g, s -> x and x -> m, where x
\* is a child of the group g; the two edges of s in either order
ChildEdgeGraphs ==
  { [nodes |-> <<Equip("s", 1), MkNode("g", "group", "", 1, 1),
                 MkNode("x", "equipment", "g", 1, 1), Equip("m", MaxCycle)>>,
     edges |-> es]
    : es \in { <<MkEdge("e1", "s", "g", 1), MkEdge("e2", "s", "x", 1),
                 MkEdge("e3", "x", "m", 1)>>,
               <<MkEdge("e2", "s", "x", 1), MkEdge("e1", "s", "g", 1),
                 MkEdge("e3", "x", "m", 1)>> } }

\* groups without a child that has a positive cycle time, starting the
\* flow g -> b: a group without children, and a group whose only child has
\* cycleTime 0
BareGroupGraphs ==
  { [nodes |-> <<MkNode("g", "group", "", MaxCycle, 1), Equip("b", 1)>>,
     edges |-> <<MkEdge("e1", "g", "b", 1)>>],
    [nodes |-> <<MkNode("g", "group", "", 0, 1),
                 MkNode("x", "equipment", "g", 0, 1), Equip("b", 1)>>,
     edges |-> <<MkEdge("e1", "g", "b", 1)>>] }

Graphs ==
  ChainGraphs \cup FanOutGraphs \cup FanInGraphs \cup NoEntryGraphs
    \cup LoopGraphs \cup GroupStartGraphs \cup GroupTransitGraphs
    \cup OrphanGraphs \cup ChildEdgeGraphs \cup BareGroupGraphs

(* ------------------------------- state --------------------------------- *)
VARIABLES
  nodes,              \* React state: the node list
  edges,              \* React state: the edge list
  isSimulating,       \* prop
  simulationMode,     \* prop: "instant" or "play-by-play"
  simulationSpeed,    \* prop
  animationFrameRef,  \* animationFrameRef.current: a frame id, 0 for null
  lastTimestamp,      \* lastTimestamp.current, milliseconds
  now,                \* the driver's clock, milliseconds
  rafQueue,           \* callbacks registered by requestAnimationFrame and
                      \* not yet run or cancelled: [id, run]
  closures,           \* run |-> the variables captured by the animate
                      \* callback of that startPlayByPlaySimulation call
  unitPosition,       \* last argument of onUnitPositionUpdate
  toasts,             \* the toasts shown so far, per kind (saturating)
  op                  \* the operation that produced this state

vars == <<nodes, edges, isSimulating, simulationMode, simulationSpeed,
          animationFrameRef, lastTimestamp, now, rafQueue, closures,
          unitPosition, toasts, op>>

(* ----------------------------- topology -------------------------------- *)
NodeIds == { nodes[i].id : i \in DOMAIN nodes }
EdgeIds == { edges[i].id : i \in DOMAIN edges }

\* nodes.find(n => n.id === id), 0 when there is none
NodeIndex(id) ==
  IF \E i \in DOMAIN nodes : nodes[i].id = id
  THEN CHOOSE i \in DOMAIN nodes :
         nodes[i].id = id /\ \A j \in 1..(i - 1) : nodes[j].id # id
  ELSE 0

\* nodeDataMap.has(id): new Map(nodes.map(n => [n.id, n.data]))
HasNodeData(id) == id \in NodeIds

\* nodeDataMap.get(id): the last entry with that key wins
NodeData(id) ==
  nodes[CHOOSE i \in DOMAIN nodes :
          nodes[i].id = id /\ \A j \in (i + 1)..Len(nodes) : nodes[j].id # id]

RECURSIVE EdgeMapFromReversed(_, _)
\* an adjacency list built with unshift: the latest edge of a source first
EdgeMapFromReversed(id, es) ==
  IF es = <<>> THEN <<>>
  ELSE LET e == Head(es)
           rest == EdgeMapFromReversed(id, Tail(es))
       IN IF e.source = id
          THEN rest \o <<[targetId |-> e.target, transitTime |-> e.transitTime]>>
          ELSE rest

RECURSIVE EdgeMapFrom(_, _)
EdgeMapFrom(id, es) ==
  IF es = <<>> THEN <<>>
  ELSE LET e == Head(es)
           rest == EdgeMapFrom(id, Tail(es))
       IN IF e.source = id
          THEN <<[targetId |-> e.target, transitTime |-> e.transitTime]>> \o rest
          ELSE rest

\* edgeMap.get(id) || []: the outgoing edges of id, in edge-list order
EdgeMapGet(id) == EdgeMapFrom(id, edges)

RECURSIVE ChildrenFrom(_, _)
ChildrenFrom(id, ns) ==
  IF ns = <<>> THEN <<>>
  ELSE IF Head(ns).parentId = id
       THEN <<Head(ns).id>> \o ChildrenFrom(id, Tail(ns))
       ELSE ChildrenFrom(id, Tail(ns))

\* groupChildrenMap.get(id): the ids of the nodes whose parentId is id, in
\* node-list order; <<>> stands for undefined (the map never holds an empty
\* array, and "" is no parentId)
GroupChildrenGet(id) == IF id = "" THEN <<>> ELSE ChildrenFrom(id, nodes)

SeqToSet(s) == { s[i] : i \in DOMAIN s }

\* findConnectedNodes(nodeId), given the set connectedNodes so far
RECURSIVE FindConnectedNodes(_, _)
RECURSIVE FindConnectedEdges(_, _)
FindConnectedNodes(nodeId, connected) ==
  IF nodeId \in connected THEN connected
  ELSE FindConnectedEdges(EdgeMapGet(nodeId),
         connected \cup {nodeId} \cup SeqToSet(GroupChildrenGet(nodeId)))

FindConnectedEdges(outgoing, connected) ==
  IF outgoing = <<>> THEN connected
  ELSE FindConnectedEdges(Tail(outgoing),
         FindConnectedNodes(Head(outgoing).targetId, connected))

AllTargets == { edges[i].target : i \in DOMAIN edges }

RECURSIVE StartNodesAnySource(_)
\* startNodeIds without the allTargets test
StartNodesAnySource(ns) ==
  IF ns = <<>> THEN <<>>
  ELSE IF Len(EdgeMapGet(Head(ns).id)) > 0
       THEN <<Head(ns).id>> \o StartNodesAnySource(Tail(ns))
       ELSE StartNodesAnySource(Tail(ns))

RECURSIVE StartNodesFrom(_)
StartNodesFrom(ns) ==
  IF ns = <<>> THEN <<>>
  ELSE LET n == Head(ns)
       IN IF n.id \notin AllTargets /\ Len(EdgeMapGet(n.id)) > 0
          THEN <<n.id>> \o StartNodesFrom(Tail(ns))
          ELSE StartNodesFrom(Tail(ns))

\* startNodeIds
StartNodeIds == StartNodesFrom(nodes)

RECURSIVE ConnectedFrom(_, _)
ConnectedFrom(starts, connected) ==
  IF starts = <<>> THEN connected
  ELSE ConnectedFrom(Tail(starts), FindConnectedNodes(Head(starts), connected))

\* connectedNodes after startNodeIds.forEach(findConnectedNodes)
ConnectedNodes == ConnectedFrom(StartNodeIds, {})

(* ------------------------------- tokens -------------------------------- *)
\* An element of activePaths.  isGroup models `undefined` by FALSE and
\* groupChildren models `undefined` by <<>>: the code tests both for
\* truthiness only, and groupChildrenMap never holds an empty array.
IsGroupNode(id) ==
  LET i == NodeIndex(id) IN i # 0 /\ nodes[i].type = "group"

\* the element of activePaths made for a start node (lines 213-222)
StartPath(id) ==
  [nodeId |-> id, progress |-> Zero, inTransit |-> FALSE, transitTo |-> "",
   transitTime |-> 0, transitProgress |-> Zero,
   isGroup |-> IsGroupNode(id), groupChildren |-> GroupChildrenGet(id)]

\* an arrival that pushes the travelling element again, from the start
ArrivedPathStillInTransit(path) == [path EXCEPT !.transitProgress = Zero]

\* an arrival that spreads the travelling element and so keeps progress 1
ArrivedPathKeepsProgress(path) ==
  [nodeId |-> path.transitTo, progress |-> path.progress, inTransit |-> FALSE,
   transitTo |-> "", transitTime |-> 0, transitProgress |-> Zero,
   isGroup |-> FALSE, groupChildren |-> <<>>]

\* the element pushed when a token arrives at path.transitTo (lines 317-324)
ArrivedPath(path) ==
  [nodeId |-> path.transitTo, progress |-> Zero, inTransit |-> FALSE,
   transitTo |-> "", transitTime |-> 0, transitProgress |-> Zero,
   isGroup |-> FALSE, groupChildren |-> <<>>]

\* the element pushed for one outgoing edge of a completed node (lines 372-381)
TransitPath(path, next) ==
  [nodeId |-> path.nodeId, progress |-> One, inTransit |-> TRUE,
   transitTo |-> next.targetId, transitTime |-> next.transitTime,
   transitProgress |-> Zero,
   isGroup |-> IsGroupNode(next.targetId),
   groupChildren |-> GroupChildrenGet(next.targetId)]

\* a fan-out that follows the first outgoing edge only
FanOutFirstOnly(path, nextNodes) ==
  IF nextNodes = <<>> THEN <<>> ELSE <<TransitPath(path, Head(nextNodes))>>

RECURSIVE FanOut(_, _)
\* nextNodes.forEach(... nextActivePaths.push(...)) (lines 371-382)
FanOut(path, nextNodes) ==
  IF nextNodes = <<>> THEN <<>>
  ELSE <<TransitPath(path, Head(nextNodes))>> \o FanOut(path, Tail(nextNodes))

\* edges.find(e => e.source === s && e.target === t)?.id, "" when none
FindEdgeId(s, t) ==
  IF \E i \in DOMAIN edges : edges[i].source = s /\ edges[i].target = t
  THEN edges[CHOOSE i \in DOMAIN edges :
               /\ edges[i].source = s /\ edges[i].target = t
               /\ \A j \in 1..(i - 1) :
                    ~(edges[j].source = s /\ edges[j].target = t)].id
  ELSE ""

\* (data.cycleTime || 0) / (data.maxCapacity || 1)
AdjustedCycleDuration(data) ==
  Num(data.cycleTime, IF data.maxCapacity = 0 THEN 1 ELSE data.maxCapacity)

RECURSIVE MinChildCycleTime(_, _)
\* the minCycleTime loop over path.groupChildren (lines 343-350)
MinChildCycleTime(children, minCycleTime) ==
  IF children = <<>> THEN minCycleTime
  ELSE MinChildCycleTime(Tail(children),
         IF HasNodeData(Head(children))
         THEN MathMin(minCycleTime, AdjustedCycleDuration(NodeData(Head(children))))
         ELSE minCycleTime)

\* the cycle duration by which the progress of an at-node token is advanced
\* (lines 336-361)
CycleDuration(path) ==
  IF path.isGroup /\ path.groupChildren # <<>>
  THEN LET minCycleTime == MinChildCycleTime(path.groupChildren, Infinity)
       IN IF minCycleTime = Infinity THEN One ELSE minCycleTime
  ELSE AdjustedCycleDuration(NodeData(path.nodeId))

\* path.transitProgress after `+= delta * simulationSpeed / path.transitTime`
TransitProgressAfter(path, dt) ==
  NumAdd(path.transitProgress, NumDiv(dt, Int2Num(path.transitTime)))

\* path.progress assigned (`=`) instead of accumulated (`+=`)
ProgressAfterAssigned(path, dt) == NumDiv(dt, CycleDuration(path))

\* path.progress after `+= delta * simulationSpeed / cycleDuration`
ProgressAfter(path, dt) ==
  NumAdd(path.progress, NumDiv(dt, CycleDuration(path)))

\* an iteration whose arrival test is path.transitProgress >= 1 alone
StepPathNoZeroEdge(path, dt) ==
  IF path.inTransit
  THEN LET tp == TransitProgressAfter(path, dt)
           edgeId == FindEdgeId(path.nodeId, path.transitTo)
           arrives == NumGeq(tp, One)
       IN [next |-> IF arrives THEN <<ArrivedPath(path)>>
                    ELSE <<[path EXCEPT !.transitProgress = tp]>>,
           active |-> IF arrives THEN {path.transitTo} ELSE {},
           transit |-> IF path.transitTime > 0 /\ edgeId # ""
                       THEN <<[id |-> edgeId, progress |-> tp]>> ELSE <<>>]
  ELSE IF ~HasNodeData(path.nodeId)
  THEN [next |-> <<>>, active |-> {}, transit |-> <<>>]
  ELSE LET pr == ProgressAfter(path, dt)
       IN [next |-> IF NumGeq(pr, One)
                    THEN FanOut(path, EdgeMapGet(path.nodeId))
                    ELSE <<[path EXCEPT !.progress = pr]>>,
           active |-> {path.nodeId} \cup
                      (IF path.isGroup /\ path.groupChildren # <<>>
                       THEN SeqToSet(path.groupChildren) ELSE {}),
           transit |-> <<>>]

\* what one iteration of activePaths.forEach adds: the elements pushed to
\* nextActivePaths, the ids added to activeNodeIds and the entries set in
\* transitEdges (lines 302-388); dt is delta * simulationSpeed
StepPath(path, dt) ==
  IF path.inTransit
  THEN LET tp == TransitProgressAfter(path, dt)
           edgeId == FindEdgeId(path.nodeId, path.transitTo)
           arrives == NumGeq(tp, One) \/ path.transitTime <= 0
       IN [next |-> IF arrives THEN <<ArrivedPath(path)>>
                    ELSE <<[path EXCEPT !.transitProgress = tp]>>,
           active |-> IF arrives THEN {path.transitTo} ELSE {},
           transit |-> IF path.transitTime > 0 /\ edgeId # ""
                       THEN <<[id |-> edgeId, progress |-> tp]>> ELSE <<>>]
  ELSE IF ~HasNodeData(path.nodeId)
  THEN [next |-> <<>>, active |-> {}, transit |-> <<>>]
  ELSE LET pr == ProgressAfter(path, dt)
       IN [next |-> IF NumGeq(pr, One)
                    THEN FanOut(path, EdgeMapGet(path.nodeId))
                    ELSE <<[path EXCEPT !.progress = pr]>>,
           active |-> {path.nodeId} \cup
                      (IF path.isGroup /\ path.groupChildren # <<>>
                       THEN SeqToSet(path.groupChildren) ELSE {}),
           transit |-> <<>>]

RECURSIVE StepPathsStopAtOrphan(_, _)
\* a forEach that an element without node data ends
StepPathsStopAtOrphan(paths, dt) ==
  IF paths = <<>> \/ (~Head(paths).inTransit /\ ~HasNodeData(Head(paths).nodeId))
  THEN [next |-> <<>>, active |-> {}, transit |-> <<>>]
  ELSE LET h == StepPath(Head(paths), dt)
           t == StepPathsStopAtOrphan(Tail(paths), dt)
       IN [next |-> h.next \o t.next,
           active |-> h.active \cup t.active,
           transit |-> h.transit \o t.transit]

RECURSIVE StepPaths(_, _)
\* the whole activePaths.forEach
StepPaths(paths, dt) ==
  IF paths = <<>> THEN [next |-> <<>>, active |-> {}, transit |-> <<>>]
  ELSE LET h == StepPath(Head(paths), dt)
           t == StepPaths(Tail(paths), dt)
       IN [next |-> h.next \o t.next,
           active |-> h.active \cup t.active,
           transit |-> h.transit \o t.transit]

\* transitEdges.has(id)
TransitHas(transit, id) == \E i \in DOMAIN transit : transit[i].id = id

\* transitEdges.get(id): the last set() for the key wins
TransitGet(transit, id) ==
  transit[CHOOSE i \in DOMAIN transit :
            transit[i].id = id /\ \A j \in (i + 1)..Len(transit) : transit[j].id # id
         ].progress

\* nextActivePaths.find(p => p.nodeId === id && !p.inTransit)?.progress
FindProgress(paths, id) ==
  IF \E i \in DOMAIN paths : paths[i].nodeId = id /\ ~paths[i].inTransit
  THEN paths[CHOOSE i \in DOMAIN paths :
               /\ paths[i].nodeId = id /\ ~paths[i].inTransit
               /\ \A j \in 1..(i - 1) :
                    ~(paths[j].nodeId = id /\ ~paths[j].inTransit)].progress
  ELSE Undefined

\* the per-tick setNodes (lines 393-402)
TickNodes(nds, r) ==
  [i \in DOMAIN nds |->
     [nds[i] EXCEPT !.active = (nds[i].id \in r.active),
                    !.progress = FindProgress(r.next, nds[i].id)]]

\* the per-tick setEdges (lines 404-413)
TickEdges(eds, r) ==
  [i \in DOMAIN eds |->
     [eds[i] EXCEPT !.transitInProgress = TransitHas(r.transit, eds[i].id),
                    !.transitProgress =
                       IF TransitHas(r.transit, eds[i].id)
                       THEN OrZero(TransitGet(r.transit, eds[i].id))
                       ELSE Zero]]

NoPosition == [nodeId |-> "", progress |-> Undefined]

\* the argument of onUnitPositionUpdate after a tick (lines 415-430)
PrimaryPosition(next) ==
  IF next # <<>> /\ ~next[1].inTransit
  THEN [nodeId |-> next[1].nodeId, progress |-> next[1].progress]
  ELSE NoPosition

(* ------------------------- completion analysis ------------------------- *)
Hundred == Int2Num(100)

\* data.maxCapacity > 1 ? cycleTime / maxCapacity : cycleTime (lines 256-258)
AdjustedCycleTime(data) ==
  IF data.maxCapacity > 1 THEN Num(data.cycleTime, data.maxCapacity)
  ELSE Int2Num(data.cycleTime)

RECURSIVE Analyze(_, _, _)
\* the nodes.forEach of the completion branch (lines 247-267): acc holds
\* maxCycleTime, bottleneckId and the entries of nodeUtilizations
Analyze(ns, connected, acc) ==
  IF ns = <<>> THEN acc
  ELSE LET node == Head(ns)
       IN IF node.id \notin connected \/ ~HasNodeData(node.id)
          THEN Analyze(Tail(ns), connected, acc)
          ELSE LET adjusted == AdjustedCycleTime(NodeData(node.id))
                   larger == NumLess(acc.maxCycleTime, adjusted)
                   maxCycleTime == IF larger THEN adjusted ELSE acc.maxCycleTime
                   utilization ==
                     MathMin(Hundred,
                             MathRound(NumTimes(NumDiv(adjusted, maxCycleTime), 100)))
               IN Analyze(Tail(ns), connected,
                    [maxCycleTime |-> maxCycleTime,
                     bottleneckId |-> IF larger THEN node.id ELSE acc.bottleneckId,
                     utilizations |-> Append(acc.utilizations,
                                       [id |-> node.id, value |-> utilization])])

\* a lookup under a key that nodeUtilizations never holds
UtilizationGetMissing(utilizations, id) == OrZero(Undefined)

\* nodeUtilizations.get(id) || 0
UtilizationGet(utilizations, id) ==
  IF \E i \in DOMAIN utilizations : utilizations[i].id = id
  THEN OrZero(utilizations[CHOOSE i \in DOMAIN utilizations :
                 /\ utilizations[i].id = id
                 /\ \A j \in (i + 1)..Len(utilizations) : utilizations[j].id # id
               ].value)
  ELSE Zero

\* a completion snapshot that leaves the nodes outside connectedNodes as
\* they are
CompletionKeepsOutside(nds) ==
  LET connected == ConnectedNodes
      a == Analyze(nodes, connected,
                   [maxCycleTime |-> Zero, bottleneckId |-> StartNodeIds[1],
                    utilizations |-> <<>>])
  IN [i \in DOMAIN nds |->
        IF nds[i].id \notin connected
        THEN nds[i]
        ELSE [nds[i] EXCEPT !.active = FALSE,
                            !.utilization = UtilizationGet(a.utilizations, nds[i].id),
                            !.bottleneck = (nds[i].id = a.bottleneckId)]]

\* the setNodes of the completion branch (lines 269-293)
CompletionNodes(nds) ==
  LET connected == ConnectedNodes
      a == Analyze(nodes, connected,
                   [maxCycleTime |-> Zero, bottleneckId |-> StartNodeIds[1],
                    utilizations |-> <<>>])
  IN [i \in DOMAIN nds |->
        IF nds[i].id \notin connected
        THEN [nds[i] EXCEPT !.active = FALSE, !.utilization = Zero,
                            !.bottleneck = FALSE]
        ELSE [nds[i] EXCEPT !.active = FALSE,
                            !.utilization = UtilizationGet(a.utilizations, nds[i].id),
                            !.bottleneck = (nds[i].id = a.bottleneckId)]]

(* ------------------------------ the driver ----------------------------- *)
FrameIds(q) == { f.id : f \in q }
FrameRuns(q) == { f.run : f \in q }

\* the id requestAnimationFrame returns: one that no pending callback has
NewFrameId(q) == CHOOSE k \in 1..(Cardinality(q) + 1) :
                   k \notin FrameIds(q) /\ \A j \in 1..(k - 1) : j \in FrameIds(q)

\* cancelAnimationFrame(id)
CancelAnimationFrame(q, id) == { f \in q : f.id # id }

\* the closures some pending callback still refers to
Live(cl, q) == [r \in (DOMAIN cl) \cap FrameRuns(q) |-> cl[r]]

Bump(t, kind) ==
  [t EXCEPT ![kind] = IF @ < MaxToasts THEN @ + 1 ELSE @]

(* ------------------------- the start/stop effect ----------------------- *)
\* a cleanup that forgets the handle without cancelling the callback
CleanupWithoutCancel(ref, q) == [ref |-> 0, queue |-> q]

\* the cleanup function of the previous effect (lines 111-116)
Cleanup(ref, q) ==
  IF ref # 0 THEN [ref |-> 0, queue |-> CancelAnimationFrame(q, ref)]
  ELSE [ref |-> ref, queue |-> q]

\* the stop branch's setNodes (lines 87-97)
StopNodes(nds) ==
  [i \in DOMAIN nds |->
     [nds[i] EXCEPT !.active = FALSE, !.utilization = Undefined,
                    !.progress = Undefined]]

\* the stop branch's setEdges (lines 99-108)
StopEdges(eds) ==
  [i \in DOMAIN eds |->
     [eds[i] EXCEPT !.transitInProgress = FALSE, !.transitProgress = Zero]]

\* a token for the first start node only
StartPathsFirstOnly(ids) == <<StartPath(Head(ids))>>

RECURSIVE StartPaths(_)
\* startNodeIds.map(id => ({...})) (lines 213-222)
StartPaths(ids) ==
  IF ids = <<>> THEN <<>> ELSE <<StartPath(Head(ids))>> \o StartPaths(Tail(ids))

\* a start that leaves lastTimestamp.current as the run before left it
StartWithoutClockReset(q, cl, ref) ==
  IF StartNodeIds = <<>>
  THEN /\ toasts' = Bump(toasts, "error")
       /\ rafQueue' = q
       /\ closures' = cl
       /\ animationFrameRef' = ref
       /\ UNCHANGED lastTimestamp
  ELSE LET run == CHOOSE r \in 1..(Cardinality(DOMAIN cl) + 1) :
                    r \notin DOMAIN cl /\ \A j \in 1..(r - 1) : j \in DOMAIN cl
           id == NewFrameId(q)
       IN /\ closures' = (run :> [activePaths |-> StartPaths(StartNodeIds),
                                  simulationSpeed |-> simulationSpeed'])
                          @@ cl
          /\ UNCHANGED lastTimestamp
          /\ animationFrameRef' = id
          /\ rafQueue' = q \cup {[id |-> id, run |-> run]}
          /\ UNCHANGED toasts

\* startPlayByPlaySimulation (lines 144-436), called with the pending
\* callbacks q and the closures cl that the cleanup left
StartPlayByPlaySimulation(q, cl, ref) ==
  IF StartNodeIds = <<>>
  THEN /\ toasts' = Bump(toasts, "error")
       /\ rafQueue' = q
       /\ closures' = cl
       /\ animationFrameRef' = ref
       /\ UNCHANGED lastTimestamp
  ELSE LET run == CHOOSE r \in 1..(Cardinality(DOMAIN cl) + 1) :
                    r \notin DOMAIN cl /\ \A j \in 1..(r - 1) : j \in DOMAIN cl
           id == NewFrameId(q)
       IN /\ closures' = (run :> [activePaths |-> StartPaths(StartNodeIds),
                                  simulationSpeed |-> simulationSpeed'])
                          @@ cl
          /\ lastTimestamp' = 0
          /\ animationFrameRef' = id
          /\ rafQueue' = q \cup {[id |-> id, run |-> run]}
          /\ UNCHANGED toasts

\* The effect of lines 78-117 running after a render with the props sim and
\* mode: React first runs the cleanup returned by the previous run of the
\* effect, then the effect body.
Effect(sim, mode) ==
  LET c == Cleanup(animationFrameRef, rafQueue)
      cl == Live(closures, c.queue)
  IN IF sim /\ mode = "play-by-play"
     THEN /\ StartPlayByPlaySimulation(c.queue, cl, c.ref)
          /\ UNCHANGED <<nodes, edges, unitPosition>>
     ELSE IF ~sim /\ c.ref # 0
     THEN /\ animationFrameRef' = 0
          /\ rafQueue' = CancelAnimationFrame(c.queue, c.ref)
          /\ closures' = Live(cl, rafQueue')
          /\ unitPosition' = NoPosition
          /\ nodes' = StopNodes(nodes)
          /\ edges' = StopEdges(edges)
          /\ UNCHANGED <<lastTimestamp, toasts>>
     ELSE /\ animationFrameRef' = c.ref
          /\ rafQueue' = c.queue
          /\ closures' = cl
          /\ UNCHANGED <<nodes, edges, unitPosition, lastTimestamp, toasts>>

\* the parent toggles isSimulating: start() and stop()
SetSimulating ==
  /\ isSimulating' = ~isSimulating
  /\ UNCHANGED <<simulationMode, simulationSpeed, now>>
  /\ Effect(isSimulating', simulationMode)
  /\ op' = [name |-> IF isSimulating' THEN "start" ELSE "stop", run |-> 0]

\* the parent changes simulationMode
SetMode ==
  /\ simulationMode' = IF simulationMode = "instant" THEN "play-by-play" ELSE "instant"
  /\ UNCHANGED <<isSimulating, simulationSpeed, now>>
  /\ Effect(isSimulating, simulationMode')
  /\ op' = [name |-> "mode", run |-> 0]

\* the parent changes simulationSpeed: not a dependency of the effect, and
\* the running animate callback keeps the value it captured
SetSpeed ==
  /\ \E s \in Speeds \ {simulationSpeed} : simulationSpeed' = s
  /\ UNCHANGED <<nodes, edges, isSimulating, simulationMode, animationFrameRef,
                 lastTimestamp, now, rafQueue, closures, unitPosition, toasts>>
  /\ op' = [name |-> "speed", run |-> 0]

\* the parent passes a new onUnitPositionUpdate: the effect runs again with
\* unchanged isSimulating and simulationMode
Rerun ==
  /\ UNCHANGED <<isSimulating, simulationMode, simulationSpeed, now>>
  /\ Effect(isSimulating, simulationMode)
  /\ op' = [name |-> IF isSimulating THEN "restart" ELSE "stop", run |-> 0]

(* ------------------------------- animate ------------------------------- *)
\* requestAnimationFrame(animate) at the end of a callback of closure run
Reschedule(f) ==
  LET q == rafQueue \ {f}
      id == NewFrameId(q)
  IN /\ rafQueue' = q \cup {[id |-> id, run |-> f.run]}
     /\ animationFrameRef' = id

\* animate, first callback after a start (lines 229-233)
AnimateBootstrap(f, timestamp) ==
  /\ lastTimestamp = 0
  /\ lastTimestamp' = timestamp
  /\ Reschedule(f)
  /\ UNCHANGED <<nodes, edges, closures, unitPosition, toasts>>
  /\ op' = [name |-> "bootstrap", run |-> f.run]

\* a completion branch that requests another frame
AnimateCompleteReschedules(f, timestamp) ==
  /\ lastTimestamp # 0
  /\ closures[f.run].activePaths = <<>>
  /\ lastTimestamp' = timestamp
  /\ toasts' = Bump(toasts, "complete")
  /\ nodes' = CompletionNodes(nodes)
  /\ Reschedule(f)
  /\ UNCHANGED <<edges, closures, unitPosition>>
  /\ op' = [name |-> "complete", run |-> f.run]

\* animate with no active path left (lines 238-296)
AnimateComplete(f, timestamp) ==
  /\ lastTimestamp # 0
  /\ closures[f.run].activePaths = <<>>
  /\ lastTimestamp' = timestamp
  /\ toasts' = Bump(toasts, "complete")
  /\ nodes' = CompletionNodes(nodes)
  /\ rafQueue' = rafQueue \ {f}
  /\ closures' = Live(closures, rafQueue')
  /\ UNCHANGED <<edges, animationFrameRef, unitPosition>>
  /\ op' = [name |-> "complete", run |-> f.run]

\* delta * simulationSpeed of a callback of closure run at timestamp
DeltaTime(run, timestamp) ==
  NumTimes(Num(timestamp - lastTimestamp, 1000), closures[run].simulationSpeed)

\* animate advancing the active paths (lines 298-432)
AnimateTick(f, timestamp) ==
  /\ lastTimestamp # 0
  /\ closures[f.run].activePaths # <<>>
  /\ lastTimestamp' = timestamp
  /\ LET r == StepPaths(closures[f.run].activePaths, DeltaTime(f.run, timestamp))
     IN /\ closures' = [closures EXCEPT ![f.run].activePaths = r.next]
        /\ nodes' = TickNodes(nodes, r)
        /\ edges' = TickEdges(edges, r)
        /\ unitPosition' = PrimaryPosition(r.next)
  /\ Reschedule(f)
  /\ UNCHANGED toasts
  /\ op' = [name |-> "tick", run |-> f.run]

\* the browser runs a pending callback d milliseconds after the last event
Animate(d) ==
  \E f \in rafQueue :
    /\ now' = now + d
    /\ UNCHANGED <<isSimulating, simulationMode, simulationSpeed>>
    /\ \/ AnimateBootstrap(f, now')
       \/ AnimateComplete(f, now')
       \/ AnimateTick(f, now')

(* ---------------------------- specification ---------------------------- *)
InitWith(graphs) ==
  /\ \E g \in graphs : nodes = g.nodes /\ edges = g.edges
  /\ isSimulating = FALSE
  /\ simulationMode = "play-by-play"
  /\ simulationSpeed \in Speeds
  /\ animationFrameRef = 0
  /\ lastTimestamp = 0
  /\ now = 1000
  /\ rafQueue = {}
  /\ closures = <<>>
  /\ unitPosition = NoPosition
  /\ toasts = [error |-> 0, complete |-> 0]
  /\ op = [name |-> "init", run |-> 0]

Init == InitWith(Graphs)

Frame == \E d \in Deltas : now + d <= 1000 * MaxSecs /\ Animate(d)

Next ==
  \/ SetSimulating
  \/ SetMode
  \/ SetSpeed
  \/ Rerun
  \/ Frame

Spec == Init /\ [][Next]_vars

(* ------------------------------- claims -------------------------------- *)
AnimateOps == {"bootstrap", "tick", "complete"}

\* the closure whose callback ran in the step that produced this state
TickRun == op.name = "tick"

\* C3.  No entry point: in a graph where no node both has an outgoing edge
\* and is the target of no edge, every start (the effect running with
\* isSimulating and play-by-play mode) shows the error toast and starts
\* nothing: no closure with tokens exists, no callback is scheduled, and
\* nodes and edges are left as they were.
NoEntryGraph ==
  ~\E i \in DOMAIN nodes :
     /\ \E j \in DOMAIN edges : edges[j].source = nodes[i].id
     /\ \A j \in DOMAIN edges : edges[j].target # nodes[i].id

StartAttempt ==
  /\ op'.name \in {"start", "restart", "mode"}
  /\ isSimulating' /\ simulationMode' = "play-by-play"

C3_NoEntryPoint ==
  [][(NoEntryGraph /\ StartAttempt) =>
       /\ toasts'.error >= 1
       /\ toasts.error < MaxToasts => toasts'.error = toasts.error + 1
       /\ rafQueue' = {}
       /\ DOMAIN closures' = {}
       /\ animationFrameRef' = 0
       /\ nodes' = nodes /\ edges' = edges /\ unitPosition' = unitPosition]_vars

\* a start was attempted on a pure cycle and reported
C3_Witness ==
  /\ NoEntryGraph /\ Len(edges) = 2
  /\ op.name = "start" /\ isSimulating /\ simulationMode = "play-by-play"
  /\ toasts.error >= 1 /\ rafQueue = {}

\* C2.  Branching law: in every tick, a token that completes processing at
\* a node with k outgoing edges is replaced in the next active set by
\* exactly k in-transit tokens, one per outgoing edge of that node (to the
\* edge's target, with the edge's transitTime), each with transitProgress 0;
\* with k = 0 nothing is added for it.
OutEdges(id) == { j \in DOMAIN edges : edges[j].source = id }

Completes(p, dt) ==
  ~p.inTransit /\ HasNodeData(p.nodeId) /\ NumGeq(ProgressAfter(p, dt), One)

\* the number of elements a token contributes to the next active set
ContributionLen(p, dt) ==
  IF Completes(p, dt) THEN Cardinality(OutEdges(p.nodeId))
  ELSE Len(StepPath(p, dt).next)

RECURSIVE Offset(_, _, _)
\* the number of elements contributed by the first i tokens of paths
Offset(paths, i, dt) ==
  IF i = 0 THEN 0
  ELSE Offset(paths, i - 1, dt) + ContributionLen(paths[i], dt)

\* c holds exactly one fresh in-transit token per outgoing edge of id
IsFanOutOf(c, id) ==
  /\ Len(c) = Cardinality(OutEdges(id))
  /\ \A k \in DOMAIN c :
       /\ c[k].inTransit /\ c[k].nodeId = id /\ c[k].transitProgress = Zero
       /\ \E j \in OutEdges(id) :
            edges[j].target = c[k].transitTo /\ edges[j].transitTime = c[k].transitTime
  /\ \A j \in OutEdges(id) :
       Cardinality({ k \in DOMAIN c :
                       /\ c[k].transitTo = edges[j].target
                       /\ c[k].transitTime = edges[j].transitTime })
         = Cardinality({ l \in OutEdges(id) :
                           /\ edges[l].target = edges[j].target
                           /\ edges[l].transitTime = edges[j].transitTime })

C2_BranchingLaw ==
  [][op'.name = "tick" =>
       LET r == op'.run
           old == closures[r].activePaths
           new == closures'[r].activePaths
           dt == DeltaTime(r, now')
       IN /\ Len(new) = Offset(old, Len(old), dt)
          /\ \A i \in DOMAIN old :
               Completes(old[i], dt) =>
                 IsFanOutOf(SubSeq(new, Offset(old, i - 1, dt) + 1,
                                   Offset(old, i, dt)),
                            old[i].nodeId)]_vars

\* a tick in which node a completed and fanned out over its two edges
C2_Witness ==
  /\ op.name = "tick"
  /\ \E r \in DOMAIN closures :
       LET ps == closures[r].activePaths
       IN /\ Len(ps) = 2
          /\ \A k \in DOMAIN ps :
               ps[k].inTransit /\ ps[k].nodeId = "a" /\ ps[k].transitProgress = Zero
          /\ ps[1].transitTo # ps[2].transitTo
  /\ \E i \in DOMAIN nodes : nodes[i].id = "a" /\ nodes[i].active

\* a tick in which a token was consumed at a node without outgoing edges
C2_WitnessSink ==
  /\ op.name = "tick"
  /\ \E r \in DOMAIN closures : closures[r].activePaths = <<>>
  /\ \E i \in DOMAIN nodes : nodes[i].active /\ OutEdges(nodes[i].id) = {}

\* C5.  Synchronous cancellation: a stop leaves no callback scheduled, and
\* from the stop until the next start no animate callback runs: no token
\* set is advanced and no snapshot (nodes, edges, unit position) is emitted.
C5_StopCancels ==
  [][/\ op'.name = "stop" => (rafQueue' = {} /\ DOMAIN closures' = {})
     /\ (~isSimulating /\ ~isSimulating') =>
          /\ op'.name \notin AnimateOps
          /\ closures' = closures /\ nodes' = nodes /\ edges' = edges
          /\ unitPosition' = unitPosition]_vars

\* a run was stopped while a token was being processed
C5_Witness ==
  /\ op.name = "stop" /\ ~isSimulating /\ rafQueue = {}
  /\ \E i \in DOMAIN nodes : nodes[i].active /\ nodes[i].progress # Undefined

\* every presentation field the run writes is back to its idle value
NodesIdle ==
  \A i \in DOMAIN nodes : ~nodes[i].active /\ nodes[i].progress = Undefined
EdgesIdle ==
  \A i \in DOMAIN edges :
    ~edges[i].transitInProgress /\ edges[i].transitProgress = Zero

\* C6.  Stop resets presentation: in the state a stop leaves, every node
\* has active = false and no progress, and every edge has
\* transitInProgress = false and transitProgress = 0.
C6_StopResetsPresentation == op.name = "stop" => (NodesIdle /\ EdgesIdle)

\* C4.  Idempotent stop: a stop leaves no callback scheduled, no token set
\* and all presentation flags reset, and a stop issued right after a stop
\* leaves the state as it is.
programVars == <<nodes, edges, isSimulating, simulationMode, simulationSpeed,
                 animationFrameRef, lastTimestamp, now, rafQueue, closures,
                 unitPosition, toasts>>

C4_IdempotentStop ==
  [][op'.name = "stop" =>
       /\ rafQueue' = {} /\ DOMAIN closures' = {}
       /\ NodesIdle' /\ EdgesIdle'
       /\ op.name = "stop" => UNCHANGED programVars]_vars

\* C7.  Run destruction resets all transient fields: when a run ends by a
\* stop or by leaving play-by-play mode while simulating, every node has
\* active = false, bottleneck = false, no progress and no utilization.
RunDestroyed ==
  \/ op.name = "stop"
  \/ op.name = "mode" /\ isSimulating /\ simulationMode = "instant"

C7_DestroyResetsTransientFields ==
  RunDestroyed =>
    \A i \in DOMAIN nodes :
      /\ ~nodes[i].active /\ ~nodes[i].bottleneck
      /\ nodes[i].progress = Undefined /\ nodes[i].utilization = Undefined

\* C8.  Group concurrency: in every tick, a token that is at a group with
\* at least one child has its progress advanced by dt divided by the
\* smallest effective cycle time (cycleTime / maxCapacity) of the group's
\* children: it stays with that progress, or completes when that progress
\* reaches 1.
ChildrenOf(id) == { i \in DOMAIN nodes : nodes[i].parentId = id }

EffectiveCycleTime(n) ==
  Num(n.cycleTime, IF n.maxCapacity > 1 THEN n.maxCapacity ELSE 1)

MinChildEffective(id) ==
  LET effs == { EffectiveCycleTime(nodes[i]) : i \in ChildrenOf(id) }
  IN CHOOSE m \in effs : \A e \in effs : ~NumLess(e, m)

AtGroup(p) ==
  /\ ~p.inTransit /\ HasNodeData(p.nodeId)
  /\ NodeData(p.nodeId).type = "group" /\ ChildrenOf(p.nodeId) # {}

C8_GroupConcurrency ==
  [][op'.name = "tick" =>
       LET r == op'.run
           old == closures[r].activePaths
           new == closures'[r].activePaths
           dt == DeltaTime(r, now')
       IN \A i \in DOMAIN old :
            AtGroup(old[i]) =>
              LET expected == NumAdd(old[i].progress,
                                     NumDiv(dt, MinChildEffective(old[i].nodeId)))
                  c == SubSeq(new, Offset(old, i - 1, dt) + 1, Offset(old, i, dt))
              IN IF NumGeq(expected, One)
                 THEN IsFanOutOf(c, old[i].nodeId)
                 ELSE c = <<[old[i] EXCEPT !.progress = expected]>>]_vars

\* the nodes marked as the bottleneck
Bottlenecks == { i \in DOMAIN nodes : nodes[i].bottleneck }

IsExampleChain ==
  /\ NodeIds = {"A", "B", "C"}
  /\ \A i \in DOMAIN nodes :
       nodes[i].cycleTime = (IF nodes[i].id = "A" THEN 10 ELSE 4)

\* C10.  Monotonicity: a token that a tick leaves in the same state (at
\* the same node, or in transit on the same edge), where the cycle times
\* (the node's and, for a group, its children's) respectively the transit
\* time are positive, has a progress (respectively transitProgress) after
\* the tick that is >= its value before.
PositiveTime(p) ==
  IF p.inTransit THEN p.transitTime > 0
  ELSE /\ HasNodeData(p.nodeId) /\ NodeData(p.nodeId).cycleTime > 0
       /\ \A k \in ChildrenOf(p.nodeId) : nodes[k].cycleTime > 0

SameState(p, q) ==
  /\ p.inTransit = q.inTransit /\ p.nodeId = q.nodeId
  /\ p.transitTo = q.transitTo /\ p.transitTime = q.transitTime

C10_Monotonicity ==
  [][op'.name = "tick" =>
       LET r == op'.run
           old == closures[r].activePaths
           new == closures'[r].activePaths
           dt == DeltaTime(r, now')
       IN \A i \in DOMAIN old :
            LET c == SubSeq(new, Offset(old, i - 1, dt) + 1, Offset(old, i, dt))
            IN (PositiveTime(old[i]) /\ Len(c) = 1 /\ SameState(old[i], c[1])) =>
                 IF old[i].inTransit
                 THEN NumGeq(c[1].transitProgress, old[i].transitProgress)
                 ELSE NumGeq(c[1].progress, old[i].progress)]_vars

\* after a tick, a token at a node with a progress strictly between 0 and 1
\* and a token in transit with a transitProgress strictly between 0 and 1
C10_Witness ==
  /\ op.name = "tick"
  /\ \E r \in DOMAIN closures :
       LET ps == closures[r].activePaths
       IN /\ \E i \in DOMAIN ps :
               ~ps[i].inTransit /\ NumLess(Zero, ps[i].progress)
          /\ \E i \in DOMAIN ps :
               ps[i].inTransit /\ NumLess(Zero, ps[i].transitProgress)

(* -------------------- the example chain of the spec -------------------- *)
ExampleEdges == <<MkEdge("e1", "A", "B", 1), MkEdge("e2", "B", "C", 1)>>

\* the chain A -> B -> C with cycle times 10, 4, 4, in every node order
ExampleGraphs ==
  LET n == [k \in {"A", "B", "C"} |-> Equip(k, IF k = "A" THEN 10 ELSE 4)]
  IN { [nodes |-> <<n[x], n[y], n[z]>>, edges |-> ExampleEdges]
       : <<x, y, z>> \in { t \in {"A", "B", "C"} \X {"A", "B", "C"} \X {"A", "B", "C"} :
                             Cardinality({t[1], t[2], t[3]}) = 3 } }

\* seconds of clock over which the example chain is followed
LongSecs == 45
\* a frame that is delivered late (a hidden tab)
LongDeltas == {5000}

LongFrame == \E d \in LongDeltas : now + d <= 1000 * LongSecs /\ Animate(d)

LongInit == InitWith(Graphs \cup ExampleGraphs)

LongNext ==
  \/ SetSimulating
  \/ SetMode
  \/ SetSpeed
  \/ Rerun
  \/ LongFrame

LongSpec == LongInit /\ [][LongNext]_vars

(* ----------------------------- termination ----------------------------- *)
Targets(id) == { edges[j].target : j \in OutEdges(id) }
ChildIds(id) == { nodes[i].id : i \in ChildrenOf(id) }

RECURSIVE EdgeClosure(_)
\* the least set that holds ids and is closed under edge traversal
EdgeClosure(ids) ==
  LET more == ids \cup UNION { Targets(id) : id \in ids }
  IN IF more = ids THEN ids ELSE EdgeClosure(more)

RECURSIVE FlowClosure(_)
\* the least set that holds ids and is closed under edge traversal and
\* under group membership
FlowClosure(ids) ==
  LET more == ids \cup UNION { Targets(id) \cup ChildIds(id) : id \in ids }
  IN IF more = ids THEN ids ELSE FlowClosure(more)

\* the nodes reachable from a start node over edges and group membership
Reachable == FlowClosure(SeqToSet(StartNodeIds))

\* the graphs of the termination claim: a start node, no edge cycle that
\* can be reached, positive cycle and transit times wherever a token can go
Terminating ==
  /\ StartNodeIds # <<>>
  /\ \A id \in Reachable : id \notin EdgeClosure(Targets(id))
  /\ \A i \in DOMAIN nodes : nodes[i].id \in Reachable => nodes[i].cycleTime > 0
  /\ \A j \in DOMAIN edges : edges[j].source \in Reachable => edges[j].transitTime > 0

\* Clock bound of the termination runs: a token passes at most 3 nodes and
\* 2 edges; every frame advances it by at least one second, so a stage of
\* duration t takes at most t frames of at most 2 seconds each (8 covers
\* the group whose fastest child takes 2 seconds, the first frame and the
\* completion frame).
LiveSecs == 2 * (3 * MaxCycle + 2 * MaxTransit + 8) + 1

LiveInit == InitWith(Graphs) /\ Terminating /\ simulationSpeed > 0

\* start(): the parent sets isSimulating
LiveStart == ~isSimulating /\ SetSimulating

\* a frame with a positive delta
LiveFrame == \E d \in PosDeltas : now + d <= 1000 * LiveSecs /\ Animate(d)

LiveNext ==
  \/ LiveStart
  \/ LiveFrame

\* The driver's side of LiveFrame: a requested callback is run at a later
\* clock value.  Under LiveNext the steps that change the clock are the
\* LiveFrame steps, and LiveFrame is enabled exactly when this is (animate
\* has a branch for every callback and every timestamp).
FrameDelivered ==
  /\ rafQueue # {}
  /\ \E d \in PosDeltas : now + d <= 1000 * LiveSecs /\ now' = now + d

\* the parent starts the run, and the browser runs every callback that
\* stays requested
LiveSpec ==
  LiveInit /\ [][LiveNext]_vars /\ WF_vars(LiveStart) /\ WF_now(FrameDelivered)

\* a tick has left the active set of the run empty
ActiveSetEmpty ==
  /\ op.name = "tick"
  /\ op.run \in DOMAIN closures /\ closures[op.run].activePaths = <<>>

\* C1.  Termination: on a graph with a start node, no reachable edge cycle
\* and positive reachable cycle and transit times, a run driven by frames
\* with positive deltas at a positive speed eventually reaches an empty
\* active token set.
C1_Termination == <>ActiveSetEmpty

\* the run of a terminating graph emptied its active set and completed
C1_Witness ==
  /\ Terminating /\ op.name = "complete" /\ toasts.complete >= 1
  /\ rafQueue = {} /\ Len(edges) = 2

(* --------------------------- start of a run ---------------------------- *)
\* the positions in the node list of the nodes that have an outgoing edge
\* and are the target of no edge
PureSources ==
  { i \in DOMAIN nodes :
      /\ \E j \in DOMAIN edges : edges[j].source = nodes[i].id
      /\ \A j \in DOMAIN edges : edges[j].target # nodes[i].id }

\* a step in which the effect ran with isSimulating and play-by-play mode
\* on a graph with an entry point
StartSucceeds == StartAttempt /\ PureSources # {}

\* C11.  Start set and initial tokens: a start that succeeds leaves one
\* run, whose active set holds exactly one token per node that has an
\* outgoing edge and is the target of no edge, at that node with progress
\* 0 and not in transit, in node-list order, whatever tokens the run before
\* it held.
C11_StartTokens ==
  [][StartSucceeds =>
       /\ Cardinality(DOMAIN closures') = 1
       /\ FrameRuns(rafQueue') = DOMAIN closures'
       /\ \A r \in DOMAIN closures' :
            LET ps == closures'[r].activePaths
            IN /\ Len(ps) = Cardinality(PureSources)
               /\ \A i \in PureSources :
                    LET p == ps[Cardinality({ j \in PureSources : j <= i })]
                    IN /\ p.nodeId = nodes[i].id /\ ~p.inTransit
                       /\ p.progress = Zero]_vars

\* a run with two start nodes was started again while the tokens of the
\* run before it were on their way
C11_Witness ==
  /\ op.name = "restart" /\ Cardinality(PureSources) = 2
  /\ \E i \in DOMAIN nodes : nodes[i].active
  /\ \E r \in DOMAIN closures :
       /\ Len(closures[r].activePaths) = 2
       /\ \A k \in 1..2 : closures[r].activePaths[k].progress = Zero

\* a run is scheduled and none of its callbacks has run yet
Fresh == rafQueue # {} /\ lastTimestamp = 0

\* C12.  First delta discarded: a start that succeeds leaves the run
\* fresh; the first callback of a fresh run only records its timestamp (no
\* token, node, edge or unit position changes); every callback records its
\* timestamp and nothing else changes the record while the run lives; and
\* every later callback advances the tokens by the time since the callback
\* before it, times the speed of the run.
C12_FirstDeltaDiscarded ==
  [][/\ StartSucceeds => Fresh'
     /\ op'.name \in AnimateOps =>
          /\ lastTimestamp' = now' /\ rafQueue # {}
          /\ Fresh <=> op'.name = "bootstrap"
     /\ op'.name = "bootstrap" =>
          /\ closures' = closures /\ nodes' = nodes /\ edges' = edges
          /\ unitPosition' = unitPosition /\ rafQueue' # {}
     /\ (op'.name \notin AnimateOps /\ ~StartSucceeds /\ rafQueue' # {}) =>
          lastTimestamp' = lastTimestamp /\ now' = now
     /\ op'.name = "tick" =>
          LET r == op'.run
              elapsed == Num(now' - lastTimestamp, 1000)
          IN closures'[r].activePaths =
               StepPaths(closures[r].activePaths,
                         NumTimes(elapsed, closures[r].simulationSpeed)).next]_vars

\* the first callback of a run that was started after an earlier run had
\* advanced: a node of the earlier run is still shown active
C12_Witness ==
  /\ op.name = "bootstrap" /\ lastTimestamp = now /\ now > 1000
  /\ \E i \in DOMAIN nodes : nodes[i].active
  /\ \E r \in DOMAIN closures :
       \A k \in DOMAIN closures[r].activePaths :
         closures[r].activePaths[k].progress = Zero

(* ------------------------------- speed --------------------------------- *)
\* the seconds between the callback of this step and the one before it
ElapsedSeconds == Num(now' - lastTimestamp, 1000)

\* C13.  Speed scaling: every tick advances the tokens by the elapsed
\* seconds times the speed multiplier that is current when the tick runs
\* (the simulationSpeed prop), also when the multiplier was changed after
\* the run was started.
C13_SpeedScaling ==
  [][op'.name = "tick" =>
       closures'[op'.run].activePaths =
         StepPaths(closures[op'.run].activePaths,
                   NumTimes(ElapsedSeconds, simulationSpeed)).next]_vars

\* C14.  Zero speed freezes progress: a tick of a run whose speed
\* multiplier is 0 (captured and current) leaves every token in the same
\* state with the same progress value: the active set is unchanged, and no
\* error is reported.
C14_ZeroSpeedFreezes ==
  [][(/\ op'.name = "tick"
      /\ closures[op'.run].simulationSpeed = 0 /\ simulationSpeed = 0) =>
       /\ closures'[op'.run].activePaths = closures[op'.run].activePaths
       /\ toasts' = toasts]_vars

(* --------------------------- unit position ----------------------------- *)
\* the positions in paths of the tokens that are at a node
AtNodeTokens(paths) == { k \in DOMAIN paths : ~paths[k].inTransit }

\* C15.  Primary-token report: after each tick the reported unit position
\* is the node id and progress of the first token of the active set that
\* is not in transit, and the cleared position only when the active set
\* holds no token at a node.
C15_PrimaryToken ==
  op.name = "tick" =>
    LET ps == closures[op.run].activePaths
        at == AtNodeTokens(ps)
    IN IF at = {} THEN unitPosition = NoPosition
       ELSE LET k == CHOOSE i \in at : \A j \in at : i <= j
            IN unitPosition = [nodeId |-> ps[k].nodeId, progress |-> ps[k].progress]

(* ---------------------------- orphan tokens ---------------------------- *)
\* a token at a node id that the node list does not hold
IsOrphan(p) == ~p.inTransit /\ p.nodeId \notin NodeIds

NotOrphan(p) == ~IsOrphan(p)

\* a run holds an orphan token
OrphanPresent ==
  \E r \in DOMAIN closures :
    \E k \in DOMAIN closures[r].activePaths : IsOrphan(closures[r].activePaths[k])

RunComplete == op.name = "complete"

\* C16.  Orphan token: a tick drops every token that is at a node id absent
\* from the node list, adds nothing for it and reports no error; the next
\* active set is what the tick makes of the other tokens alone; and a run
\* that holds an orphan token still reaches completion.
C16_OrphanToken ==
  /\ [][op'.name = "tick" =>
          LET old == closures[op'.run].activePaths
              dt == DeltaTime(op'.run, now')
          IN /\ closures'[op'.run].activePaths =
                  StepPaths(SelectSeq(old, NotOrphan), dt).next
             /\ toasts' = toasts]_vars
  /\ (OrphanPresent ~> RunComplete)

\* a run completed whose token towards q had arrived and been dropped
\* next to the token towards b
C16_Witness ==
  /\ RunComplete /\ "q" \in AllTargets \ NodeIds
  /\ \E i \in DOMAIN nodes : nodes[i].id = "b" /\ nodes[i].utilization # Undefined

(* ------------------------ completion snapshot -------------------------- *)
\* C17.  Unreachable nodes at completion: in the state the completion
\* analysis leaves, every node outside the reachable set (the run's
\* connectedNodes, and so every node that cannot be reached from a start
\* node at all) has utilization 0, bottleneck = false and active = false,
\* whatever its cycle time.
C17_UnreachableAtCompletion ==
  RunComplete =>
    \A i \in DOMAIN nodes :
      (nodes[i].id \notin ConnectedNodes \/ nodes[i].id \notin Reachable) =>
        /\ nodes[i].utilization = Zero
        /\ ~nodes[i].bottleneck /\ ~nodes[i].active

\* a run completed on a graph whose unconnected node has a cycle time that
\* no connected node exceeds
C17_Witness ==
  /\ RunComplete
  /\ \E i \in DOMAIN nodes :
       /\ nodes[i].id \notin Reachable /\ nodes[i].utilization = Zero
       /\ \A j \in DOMAIN nodes : nodes[j].cycleTime <= nodes[i].cycleTime
  /\ \E j \in DOMAIN nodes : nodes[j].bottleneck

(* --------------------------- reachable set ----------------------------- *)
\* the effect has just started a run
RunStarted ==
  /\ op.name \in {"start", "restart", "mode"}
  /\ isSimulating /\ simulationMode = "play-by-play" /\ rafQueue # {}

\* C18.  Reachable-set closure: when a start succeeds, the computed
\* reachable set (connectedNodes) holds every start node, the target of
\* every edge whose source it holds, and every child of every group it
\* holds.
C18_ReachableClosed ==
  RunStarted =>
    /\ SeqToSet(StartNodeIds) \subseteq ConnectedNodes
    /\ \A n \in ConnectedNodes :
         Targets(n) \subseteq ConnectedNodes /\ ChildIds(n) \subseteq ConnectedNodes

\* C9.  Bottleneck: in the state the completion analysis leaves, exactly
\* one node has bottleneck = true; it is in the reachable set, no
\* reachable node has a strictly larger effective cycle time (cycleTime /
\* max(maxCapacity, 1)), and its utilization is 100 when that effective
\* cycle time is positive.  In the chain A -> B -> C with cycle times 10,
\* 4, 4 it is A, whatever the order of the node list.
C9_Bottleneck ==
  RunComplete =>
    /\ Cardinality(Bottlenecks) = 1
    /\ \A i \in Bottlenecks :
         /\ nodes[i].id \in Reachable
         /\ \A j \in DOMAIN nodes :
              nodes[j].id \in Reachable =>
                ~NumLess(EffectiveCycleTime(nodes[i]), EffectiveCycleTime(nodes[j]))
         /\ NumLess(Zero, EffectiveCycleTime(nodes[i])) =>
              nodes[i].utilization = Hundred
         /\ IsExampleChain => nodes[i].id = "A"

(* ------------------------------- groups -------------------------------- *)
\* the node with this id is shown active
ShownActive(id) == \E i \in DOMAIN nodes : nodes[i].id = id /\ nodes[i].active

\* C19.  Group children active: after every tick, for every token of the
\* active set that is at a group with children (it arrived there in this
\* tick, or it was there before and stays), the group and every one of its
\* children are marked active in the snapshot of that tick.
C19_GroupChildrenActive ==
  op.name = "tick" =>
    \A k \in DOMAIN closures[op.run].activePaths :
      LET p == closures[op.run].activePaths[k]
      IN AtGroup(p) =>
           /\ ShownActive(p.nodeId)
           /\ \A c \in ChildIds(p.nodeId) : ShownActive(c)

\* a token at a group none of whose children has a positive cycle time
AtBareGroup(p) ==
  /\ ~p.inTransit /\ HasNodeData(p.nodeId)
  /\ NodeData(p.nodeId).type = "group"
  /\ \A c \in ChildrenOf(p.nodeId) : nodes[c].cycleTime = 0

\* C20.  Group default cycle time: in every tick, a token at a group that
\* has no child with a positive cycle time (no children, or children with
\* cycleTime 0 only) has its progress advanced by dt / 1: it stays with
\* that progress, or completes when that progress reaches 1.
C20_GroupDefaultCycleTime ==
  [][op'.name = "tick" =>
       LET r == op'.run
           old == closures[r].activePaths
           new == closures'[r].activePaths
           dt == DeltaTime(r, now')
       IN \A i \in DOMAIN old :
            AtBareGroup(old[i]) =>
              LET expected == NumAdd(old[i].progress, NumDiv(dt, One))
                  c == SubSeq(new, Offset(old, i - 1, dt) + 1, Offset(old, i, dt))
              IN IF NumGeq(expected, One)
                 THEN IsFanOutOf(c, old[i].nodeId)
                 ELSE c = <<[old[i] EXCEPT !.progress = expected]>>]_vars

(* ------------------------------ completion ----------------------------- *)
\* the step is a tick that leaves the active set of its run empty
EmptyingTick == op'.name = "tick" /\ closures'[op'.run].activePaths = <<>>

\* the step is a callback of a run whose active set is empty
CallbackOnEmpty ==
  /\ op'.name \in AnimateOps /\ lastTimestamp # 0
  /\ closures[op'.run].activePaths = <<>>

\* C21, as stated.  Completion step: a tick that leaves the active set
\* empty runs the completion analysis in that same tick (a bottleneck is
\* marked) and schedules no further callback.
C21_CompletionInTick ==
  [][EmptyingTick =>
       /\ op'.run \notin FrameRuns(rafQueue')
       /\ \E i \in DOMAIN nodes' : nodes'[i].bottleneck]_vars

\* C21, amended.  A tick that leaves the active set empty schedules one
\* more callback and reports no completion yet; the callback that finds
\* the active set empty is the completion analysis, not a tick; the
\* analysis runs only on an empty active set and leaves its run without a
\* callback and without tokens, so it runs once and no tick follows it;
\* and an emptied run whose callbacks keep being delivered is analysed.
C21_CompletionNextCallback ==
  /\ [][/\ EmptyingTick =>
             /\ op'.run \in FrameRuns(rafQueue')
             /\ toasts' = toasts
        /\ CallbackOnEmpty => op'.name = "complete"
        /\ op'.name = "complete" =>
             /\ closures[op'.run].activePaths = <<>>
             /\ toasts'.complete >= 1
             /\ op'.run \notin FrameRuns(rafQueue')
             /\ op'.run \notin DOMAIN closures']_vars
  /\ (ActiveSetEmpty ~> RunComplete)

\* the analysis has run and left nothing scheduled; the handle of the last
\* callback is still stored
C21_Witness ==
  /\ RunComplete /\ rafQueue = {} /\ DOMAIN closures = {}
  /\ animationFrameRef # 0
  /\ \E i \in DOMAIN nodes : nodes[i].bottleneck

(* --------------------------- utilization ------------------------------- *)
\* the largest effective cycle time among the reachable nodes at or before
\* position i of the node list
RunningMax(i) ==
  LET effs == { EffectiveCycleTime(nodes[j]) :
                  j \in { k \in 1..i : nodes[k].id \in Reachable } }
  IN CHOOSE m \in effs : \A e \in effs : ~NumLess(m, e)

\* min(100, round(100 * eff / max))
UtilizationOf(eff, max) == MathMin(Hundred, MathRound(NumTimes(NumDiv(eff, max), 100)))

\* C22.  Utilization formula: in the state the completion analysis leaves,
\* each reachable node n has utilization = min(100, round(100 * eff(n) /
\* M(n))), where eff(n) = cycleTime / max(maxCapacity, 1) and M(n) is the
\* largest eff among the reachable nodes at or before n in node-list order,
\* whenever M(n) > 0.
C22_UtilizationFormula ==
  RunComplete =>
    \A i \in DOMAIN nodes :
      (nodes[i].id \in Reachable /\ NumLess(Zero, RunningMax(i))) =>
        nodes[i].utilization = UtilizationOf(EffectiveCycleTime(nodes[i]), RunningMax(i))

\* the largest effective cycle time among the nodes with an id of ids
GlobalMax(ids) ==
  LET effs == { EffectiveCycleTime(nodes[j]) :
                  j \in { k \in DOMAIN nodes : nodes[k].id \in ids } }
  IN CHOOSE m \in effs : \A e \in effs : ~NumLess(m, e)

\* the utilization a two-pass analysis of the nodes of ids gives node i:
\* round(100 * eff / globalMax)
TwoPass(i, ids) ==
  MathRound(NumTimes(NumDiv(EffectiveCycleTime(nodes[i]), GlobalMax(ids)), 100))

\* C23, as stated.  Order-dependent under-reporting: in the state the
\* completion analysis leaves, a reachable node that is visited before the
\* true global maximum (its running maximum is below the global one) has its
\* utilization understated: the reported value is not above the two-pass
\* value round(100 * eff(n) / globalMax).  Stated for the graphs whose
\* computed reachable set is the closed one.
C23_UnderReporting ==
  (RunComplete /\ ConnectedNodes = Reachable) =>
    \A i \in DOMAIN nodes :
      (/\ nodes[i].id \in Reachable
       /\ NumLess(Zero, RunningMax(i))
       /\ NumLess(RunningMax(i), GlobalMax(Reachable))) =>
        ~NumLess(TwoPass(i, Reachable), nodes[i].utilization)

\* C23, amended.  Order-dependent over-reporting: in the state the
\* completion analysis leaves, no node the analysis visits (a node of
\* connectedNodes) has a reported utilization below the two-pass value
\* round(100 * eff(n) / globalMax) over the visited nodes, when that maximum
\* is positive; the incremental running maximum overstates the utilization
\* of a node visited before the true global maximum.
C23_OverReporting ==
  (RunComplete /\ NumLess(Zero, GlobalMax(ConnectedNodes))) =>
    \A i \in DOMAIN nodes :
      nodes[i].id \in ConnectedNodes =>
        ~NumLess(nodes[i].utilization, TwoPass(i, ConnectedNodes))

\* a completed run in which a node visited before the true global maximum
\* is reported above its two-pass value
C23_Witness ==
  /\ RunComplete /\ ConnectedNodes = Reachable
  /\ \E i \in DOMAIN nodes :
       /\ nodes[i].id \in ConnectedNodes
       /\ NumLess(RunningMax(i), GlobalMax(ConnectedNodes))
       /\ NumLess(TwoPass(i, ConnectedNodes), nodes[i].utilization)

(* ---------------------------- edge snapshot ---------------------------- *)
\* the tokens of ps that are in transit along the edge e
TransitingAlong(ps, e) ==
  { k \in DOMAIN ps :
      ps[k].inTransit /\ ps[k].nodeId = e.source /\ ps[k].transitTo = e.target }

\* C24.  Edge snapshot: in the snapshot a tick emits, an edge has
\* transitInProgress = true exactly when some token of the active set after
\* that tick is in transit along it, and its transitProgress is then such a
\* token's transitProgress, a value in [0, 1); every other edge has
\* transitInProgress = false and transitProgress = 0.
C24_EdgeSnapshot ==
  op.name = "tick" =>
    \A j \in DOMAIN edges :
      LET ps == closures[op.run].activePaths
          along == TransitingAlong(ps, edges[j])
      IN IF along # {}
         THEN /\ edges[j].transitInProgress
              /\ \E k \in along : edges[j].transitProgress = ps[k].transitProgress
              /\ ~NumLess(edges[j].transitProgress, Zero)
              /\ NumLess(edges[j].transitProgress, One)
         ELSE /\ ~edges[j].transitInProgress
              /\ edges[j].transitProgress = Zero

(* -------------------------- zero-duration edge ------------------------- *)
\* no edge with transitTime <= 0 is marked
ZeroEdgesUnmarked ==
  \A j \in DOMAIN edges : edges[j].transitTime <= 0 => ~edges[j].transitInProgress

\* C25.  Zero-duration edge: in every tick, whatever its delta and the
\* run's speed, a token in transit on an edge with transitTime <= 0 is
\* replaced, at its place in the next active set, by one token at the
\* edge's target that is not in transit and has progress 0; and no edge
\* with transitTime <= 0 is marked transitInProgress in any state.
C25_ZeroDurationEdge ==
  /\ ZeroEdgesUnmarked
  /\ [][/\ ZeroEdgesUnmarked'
        /\ op'.name = "tick" =>
             LET r == op'.run
                 old == closures[r].activePaths
                 new == closures'[r].activePaths
                 dt == DeltaTime(r, now')
             IN \A i \in DOMAIN old :
                  (old[i].inTransit /\ old[i].transitTime <= 0) =>
                    LET at == Offset(old, i - 1, dt) + 1
                    IN /\ ContributionLen(old[i], dt) = 1
                       /\ at \in DOMAIN new
                       /\ new[at].nodeId = old[i].transitTo
                       /\ ~new[at].inTransit
                       /\ new[at].progress = Zero]_vars

\* a tick has just delivered a token over a zero-duration edge: the token
\* is at a node that only zero-duration edges enter
C25_Witness ==
  /\ op.name = "tick"
  /\ \E k \in DOMAIN closures[op.run].activePaths :
       LET p == closures[op.run].activePaths[k]
           into == { j \in DOMAIN edges : edges[j].target = p.nodeId }
       IN /\ ~p.inTransit /\ p.progress = Zero
          /\ into # {}
          /\ \A j \in into : edges[j].transitTime = 0 /\ ~edges[j].transitInProgress

(* ----------------------------- token order ----------------------------- *)
\* the m-th edge, in edge-list order, among the edges with source id
NthOutEdge(id, m) ==
  CHOOSE j \in OutEdges(id) : Cardinality({ l \in OutEdges(id) : l <= j }) = m

\* C26.  Deterministic token order: in every tick the next active set is
\* the concatenation, in active-set order, of what each token leaves: a
\* token that stays where it is (at its node, or in transit to the same
\* target) or that arrives leaves one token at its place, so surviving
\* tokens keep their relative order; a token that completes at a node
\* leaves, at its place, one token per edge with that source, in edge-list
\* order.
C26_TokenOrder ==
  [][op'.name = "tick" =>
       LET r == op'.run
           old == closures[r].activePaths
           new == closures'[r].activePaths
           dt == DeltaTime(r, now')
       IN /\ Len(new) = Offset(old, Len(old), dt)
          /\ \A i \in DOMAIN old :
               LET from == Offset(old, i - 1, dt)
                   len == ContributionLen(old[i], dt)
               IN IF Completes(old[i], dt)
                  THEN \A m \in 1..len :
                         /\ new[from + m].inTransit
                         /\ new[from + m].nodeId = old[i].nodeId
                         /\ new[from + m].transitTo =
                              edges[NthOutEdge(old[i].nodeId, m)].target
                         /\ new[from + m].transitTime =
                              edges[NthOutEdge(old[i].nodeId, m)].transitTime
                  ELSE len = 1 =>
                         IF new[from + 1].inTransit
                         THEN /\ old[i].inTransit
                              /\ new[from + 1].nodeId = old[i].nodeId
                              /\ new[from + 1].transitTo = old[i].transitTo
                         ELSE new[from + 1].nodeId =
                                (IF old[i].inTransit THEN old[i].transitTo
                                 ELSE old[i].nodeId)]_vars

\* a tick left the two tokens of a fan-out next to each other, in the
\* order of their edges in the edge list
C26_Witness ==
  /\ op.name = "tick"
  /\ LET ps == closures[op.run].activePaths
     IN \E k \in DOMAIN ps :
          /\ k + 1 \in DOMAIN ps
          /\ ps[k].inTransit /\ ps[k + 1].inTransit
          /\ ps[k].transitProgress = Zero /\ ps[k + 1].transitProgress = Zero
          /\ ps[k].nodeId = ps[k + 1].nodeId
          /\ Cardinality(OutEdges(ps[k].nodeId)) = 2
          /\ ps[k].transitTo = edges[NthOutEdge(ps[k].nodeId, 1)].target
          /\ ps[k + 1].transitTo = edges[NthOutEdge(ps[k].nodeId, 2)].target
          /\ ps[k].transitTo # ps[k + 1].transitTo

(* --------------------------- single tick loop -------------------------- *)
\* the effect runs again while a callback of a run is scheduled
RestartInProgress ==
  /\ op'.name \in {"start", "restart", "mode"}
  /\ isSimulating' /\ simulationMode' = "play-by-play"
  /\ rafQueue # {}

\* C27.  Single tick loop: in every state at most one tick callback is
\* scheduled and at most one run's token set is alive, the one the
\* scheduled callback belongs to; every callback that runs is that one;
\* and an effect run that starts a play-by-play run while a callback is
\* scheduled leaves only the new run's first callback, with the new run's
\* start tokens and a reset clock, so no tick of the previous run follows.
C27_SingleTickLoop ==
  /\ [](/\ Cardinality(rafQueue) <= 1
        /\ DOMAIN closures = FrameRuns(rafQueue))
  /\ [][/\ op'.name \in AnimateOps =>
             /\ FrameRuns(rafQueue) = {op'.run}
             /\ FrameRuns(rafQueue') \subseteq {op'.run}
        /\ (RestartInProgress /\ StartNodeIds # <<>>) =>
             /\ Cardinality(rafQueue') = 1
             /\ animationFrameRef' \in FrameIds(rafQueue')
             /\ lastTimestamp' = 0
             /\ \A r \in DOMAIN closures' :
                  closures'[r].activePaths = StartPaths(StartNodeIds)]_vars

\* the effect ran again in the middle of a run: one callback is scheduled,
\* the tokens are the start tokens, and a node still shows the progress the
\* previous run's tick wrote
C27_Witness ==
  /\ op.name = "restart" /\ isSimulating /\ simulationMode = "play-by-play"
  /\ Cardinality(rafQueue) = 1 /\ lastTimestamp = 0
  /\ \E i \in DOMAIN nodes :
       nodes[i].progress # Undefined /\ NumLess(Zero, nodes[i].progress)

(* ------------------------ one transition per tick ---------------------- *)
\* the longest path followed
MaxPath == 3

PathName(i) == "p" \o ToString(i)

\* a path of n nodes and n - 1 edges, all nodes with one cycle time and all
\* edges with one transit time, 0 included
PathGraphs ==
  { [nodes |-> [i \in 1..n |-> Equip(PathName(i), c)],
     edges |-> [i \in 1..(n - 1) |->
                  MkEdge("e" \o ToString(i), PathName(i), PathName(i + 1), t)]]
    : n \in 2..MaxPath, c \in {0, MaxCycle}, t \in {0, MaxTransit} }

\* milliseconds between two frames of a display that refreshes steadily
PacedDelta == 1000
\* seconds of clock over which the paced runs are followed
PacedSecs == 2 * MaxPath * (MaxCycle + MaxTransit) + 4

PacedFrame == now + PacedDelta <= 1000 * PacedSecs /\ Animate(PacedDelta)

PacedInit == InitWith(Graphs \cup PathGraphs)

PacedNext ==
  \/ LiveStart
  \/ PacedFrame

\* one run, started once, with a callback every PacedDelta milliseconds
PacedSpec == PacedInit /\ [][PacedNext]_vars

\* In a paced run the k-th callback runs at clock 1000 + k * PacedDelta (the
\* clock starts at 1000); the first callback only records the timestamp, so
\* k - 1 ticks have been processed.
ProcessedTicks == (now - 1000) \div PacedDelta - 1

RECURSIVE Level(_, _, _)
\* the least number of edges from a node of ids to id, plus k; 0 when no
\* edge path leads to id
Level(ids, k, id) ==
  IF id \in ids THEN k
  ELSE LET more == ids \cup UNION { Targets(x) : x \in ids }
       IN IF more = ids THEN 0 ELSE Level(more, k + 1, id)

\* the least number of edges from a start node to id
Dist(id) == Level(SeqToSet(StartNodeIds), 0, id)

\* the graph's flow is one path: one start node, and from it a chain of
\* existing nodes without a branch, a join or a cycle
IsPathGraph ==
  LET on == EdgeClosure(SeqToSet(StartNodeIds))
  IN /\ Len(StartNodeIds) = 1
     /\ on \subseteq NodeIds
     /\ \A id \in on :
          /\ Cardinality(OutEdges(id)) <= 1
          /\ Cardinality({ j \in DOMAIN edges : edges[j].target = id }) <= 1
          /\ id \notin EdgeClosure(Targets(id))

\* the number of nodes of the path
PathLength == Cardinality(EdgeClosure(SeqToSet(StartNodeIds)))

\* C28.  One transition per tick: in every tick a token in transit leaves,
\* at its place, either itself on the same edge or one token at the edge's
\* target that is not in transit and has progress 0 (an arrival gets no
\* processing progress), and a token that completes at a node leaves
\* tokens in transit from that node with transitProgress 0 (a departure
\* gets no transit progress).  So after k processed ticks a token at a node
\* is at most k / 2 edges from a start node and a token in transit left a
\* node at most (k - 1) / 2 edges from one; and on a path of n nodes and
\* n - 1 edges the active set is empty after no fewer than 2n - 1 processed
\* ticks, whatever the cycle and transit times, 0 included.
C28_OneTransitionPerTick ==
  /\ [](op.name = "bootstrap" => ProcessedTicks = 0)
  /\ [](op.name = "tick" =>
          /\ \A k \in DOMAIN closures[op.run].activePaths :
               LET p == closures[op.run].activePaths[k]
               IN IF p.inTransit
                  THEN 2 * Dist(p.nodeId) + 1 <= ProcessedTicks
                  ELSE 2 * Dist(p.nodeId) <= ProcessedTicks
          /\ (IsPathGraph /\ closures[op.run].activePaths = <<>>) =>
               ProcessedTicks >= 2 * PathLength - 1)
  /\ [][op'.name = "tick" =>
          LET r == op'.run
              old == closures[r].activePaths
              new == closures'[r].activePaths
              dt == DeltaTime(r, now')
          IN \A i \in DOMAIN old :
               LET from == Offset(old, i - 1, dt)
                   len == ContributionLen(old[i], dt)
               IN /\ from + len <= Len(new)
                  /\ old[i].inTransit =>
                       /\ len = 1
                       /\ IF new[from + 1].inTransit
                          THEN /\ new[from + 1].nodeId = old[i].nodeId
                               /\ new[from + 1].transitTo = old[i].transitTo
                          ELSE /\ new[from + 1].nodeId = old[i].transitTo
                               /\ new[from + 1].progress = Zero
                  /\ Completes(old[i], dt) =>
                       \A m \in 1..len :
                         /\ new[from + m].inTransit
                         /\ new[from + m].nodeId = old[i].nodeId
                         /\ new[from + m].transitProgress = Zero]_vars

\* a path of 3 nodes whose cycle and transit times are all 0 has its token
\* consumed in the 5th processed tick
C28_Witness ==
  /\ op.name = "tick" /\ closures[op.run].activePaths = <<>>
  /\ IsPathGraph /\ PathLength = 3
  /\ \A i \in DOMAIN nodes : nodes[i].cycleTime = 0
  /\ \A j \in DOMAIN edges : edges[j].transitTime = 0
  /\ ProcessedTicks = 2 * PathLength - 1

====
